---- MODULE Spec2Model ----
(***************************************************************************)
(* Model of the data freshness pipeline (app/dashboards/daedalus/data.py)  *)
(* and of the session / user store (app/auth.py).                          *)
(*                                                                         *)
(* Blob store: one durable value per path.  A parquet blob is              *)
(* <<"parquet", v>>, a missing or unreadable blob is <<>>.  The arrow      *)
(* table read from it is <<"arrow", v>>, the pandas frame made of it is    *)
(* <<"df", v>>, the empty frame pd.DataFrame() is <<"df">>.  v is the      *)
(* snapshot of the remote table taken by the extraction.                   *)
(***************************************************************************)
EXTENDS Integers, Sequences, FiniteSets, TLC

\* ------------------------------------------------------------------ bounds
MaxCalls == 2        \* pipeline calls (stage / promote) in one behaviour
MaxNow == 4          \* the clock stops here
MaxSessions == 2     \* session ids generated in one behaviour
MaxWrites == 2       \* user-store writes that succeed in one behaviour

\* ------------------------------------------------------- static configuration
\* DAEDALUS_TABLES, in the dict's iteration order
Tables == <<"daedalus", "cac_entity", "active_subs">>
Keys == {Tables[i] : i \in 1..Len(Tables)}
NTables == Len(Tables)

\* worker processes of the web server, and request threads
Procs == {"w1", "w2"}
Threads == {"t1", "t2"}

\* skip_keys arguments tried
SkipChoices == {{}, {"cac_entity"}}

\* sets of tables whose load raises during a preload
PreloadFailures == {{}, {"cac_entity"}}

\* ------------------------------------------------------------ blob contents
NoBlob == <<>>
EmptyDF == <<"df">>
Parquet(v) == <<"parquet", v>>

\* pyarrow serialisation and its inverse, and Table.to_pandas()
Serialize(arrow) == <<"parquet", arrow[2]>>
Deserialize(blob) == <<"arrow", blob[2]>>
ToPandas(arrow) == <<"df", arrow[2]>>

VARIABLES
    staging,      \* staging blob of each table
    active,       \* active blob of each table
    cache,        \* _daedalus_cache of each worker process (a dict)
    started,      \* the processes that ran preload_daedalus_tables
    bqStamp,      \* bq_last_refresh.txt   (0: never written)
    gcsStamp,     \* gcs_last_refresh.txt  (0: never written)
    now,          \* the clock
    call,         \* the pipeline call each thread is in
    ncalls,       \* pipeline calls started
    everStaged,   \* history: every content the staging blob of a table held
    sessions,     \* the session blobs of the bucket, by session id
    nsessions,    \* session ids generated so far
    usersDoc,     \* the users JSON document of the bucket
    usersCache,   \* _users_cache of each worker process
    defaults,     \* the DEFAULT_USERS dict of each worker process
    writes,       \* history: the user-store writes that returned success
    ret           \* what the last call of the auth module returned

pipeVars == <<staging, active, cache, started, bqStamp, gcsStamp, call,
              ncalls, everStaged>>
authVars == <<now, sessions, nsessions, usersDoc, usersCache, defaults, writes, ret>>
vars == <<pipeVars, authVars>>

Idle == [op |-> "idle"]

\* ------------------------------------------------------------------- reads
\* _get_df(key): dict.get, the empty frame when the key is absent
GetDf(c, key) == IF key \in DOMAIN c THEN c[key] ELSE EmptyDF

\* load_parquet_from_gcs: None (here NoBlob) for a blob that is missing or
\* cannot be read
LoadParquet(blobs, key) ==
    IF blobs[key] = NoBlob THEN NoBlob ELSE Deserialize(blobs[key])

\* save_parquet_to_gcs: the blob is replaced whole
SaveParquet(blobs, key, arrow) == [blobs EXCEPT ![key] = Serialize(arrow)]

\* a slip: the dict is rebuilt with the one key (_daedalus_cache = {key: df})
CacheRebuilt(c, key, df) == [k \in {key} |-> df]

\* _daedalus_cache[key] = df
CacheAssign(c, key, df) == [k \in DOMAIN c \cup {key} |-> IF k = key THEN df ELSE c[k]]

\* ------------------------------------------------------ auth: configuration
\* the clock counts ticks of 100 s: the users cache is valid for 300 s
CacheWindow == 3

\* app.config: session lifetimes, in ticks
SESSION_TTL_DEFAULT == 1
SESSION_TTL_REMEMBER == 2

\* app.config: the users a new deployment starts with
DEFAULT_USERS ==
    ("admin" :> [password |-> "pw_admin", role |-> "admin", name |-> "Admin",
                 dashboards |-> <<"all">>])
    @@ ("viewer" :> [password |-> "pw_viewer", role |-> "readonly", name |-> "Viewer",
                     dashboards |-> <<"daedalus">>])

\* login attempts tried
Usernames == {"admin", "viewer", "ghost"}
Passwords == {"pw_admin", "pw_viewer", "wrong"}

\* session ids a caller may present: the empty string, the generated ids, and
\* one string that is no generated id
EmptySid == 0
MalformedSid == MaxSessions + 1
SidInputs == 0..MalformedSid

\* the users document is missing; _users_cache = {"data": None, "loaded_at": None}
\* shared: the user ids whose record in data is the very dict object that
\* DEFAULT_USERS holds (DEFAULT_USERS.copy() copies the outer dict only)
NoDoc == [exists |-> FALSE, users |-> <<>>]
NoEntry == [loaded |-> FALSE, data |-> <<>>, loaded_at |-> 0, shared |-> {}]

\* datetime.isoformat() and datetime.fromisoformat()
IsoFormat(t) == <<"iso", t>>
FromIso(str) == str[2]

\* the bucket is new, or holds the blobs earlier runs left (snapshot 0)
Init ==
    /\ \E b \in {NoBlob, Parquet(0)} :
         /\ staging = [k \in Keys |-> b]
         /\ active = [k \in Keys |-> b]
         /\ everStaged = [k \in Keys |-> {b}]
    /\ cache = [p \in Procs |-> <<>>]
    /\ started = {}
    /\ bqStamp = 0
    /\ gcsStamp = 0
    /\ now = 1
    /\ call = [t \in Threads |-> Idle]
    /\ ncalls = 0
    /\ sessions = <<>>
    /\ nsessions = 0
    /\ usersDoc = NoDoc
    /\ usersCache = [p \in Procs |-> NoEntry]
    /\ defaults = [p \in Procs |-> DEFAULT_USERS]
    /\ writes = <<>>
    /\ ret = [op |-> "none"]

\* ------------------------------------------------------------------ startup
\* the frame preload_daedalus_tables puts in the slot of key; failed: the load
\* or the conversion raised
PreloadSlotKeepsNone(blobs, key, failed) ==
    IF failed \/ LoadParquet(blobs, key) = NoBlob
    THEN NoBlob
    ELSE ToPandas(LoadParquet(blobs, key))

PreloadSlot(blobs, key, failed) ==
    IF failed \/ LoadParquet(blobs, key) = NoBlob
    THEN EmptyDF
    ELSE ToPandas(LoadParquet(blobs, key))

\* preload_daedalus_tables() in process p, once, when the process starts
Preload(p) ==
    /\ p \notin started
    /\ \E F \in PreloadFailures :
         cache' = [cache EXCEPT ![p] = [k \in Keys |-> PreloadSlot(active, k, k \in F)]]
    /\ started' = started \cup {p}
    /\ UNCHANGED <<staging, active, bqStamp, gcsStamp, authVars, call, ncalls, everStaged>>

\* --------------------------------------------------------- pipeline calls
\* what a call that runs alone remembers of the state it started in
Snapshot(p) ==
    [staging |-> staging, active |-> active, cache |-> cache[p],
     bqStamp |-> bqStamp, gcsStamp |-> gcsStamp]

\* a call may start: the thread is free; without overlap the calls run one at
\* a time, on the first thread
CanStart(t, overlap) ==
    /\ call[t] = Idle
    /\ ncalls < MaxCalls
    /\ overlap \/ (t = "t1" /\ \A u \in Threads : call[u] = Idle)

\* seq: the number of the call; the extraction of call n returns snapshot n of
\* the warehouse
NewCall(op, p, skip, ok, overlap) ==
    [op |-> op, proc |-> p, skip |-> skip, seq |-> ncalls + 1, idx |-> 1,
     phase |-> "load", arrow |-> NoBlob, done |-> {},
     st |-> IF ok THEN "run" ELSE "fail", failed |-> "",
     why |-> IF ok THEN "" ELSE "bucket", was |-> NoBlob,
     pre |-> IF overlap THEN <<>> ELSE Snapshot(p)]

\* the call ends in its except branch, at table key ("" outside the loop),
\* because of why
Raise(c, key, why) == [c EXCEPT !.st = "fail", !.failed = key, !.why = why]

\* the loop goes on to the next table
Advance(c) ==
    [c EXCEPT !.idx = c.idx + 1, !.phase = "load", !.arrow = NoBlob, !.was = NoBlob]

\* the table is appended to loaded / activated and the loop goes on
Completed(c, key) == [Advance(c) EXCEPT !.done = @ \cup {key}]

Running(t, op) == call[t].op = op /\ call[t].st = "run"

\* refresh_daedalus_bq_to_staging: the client and the bucket
StartStage(t, overlap) ==
    /\ CanStart(t, overlap)
    /\ \E p \in started, skip \in SkipChoices, ok \in BOOLEAN :
         call' = [call EXCEPT ![t] = NewCall("stage", p, skip, ok, overlap)]
    /\ ncalls' = ncalls + 1
    /\ UNCHANGED <<staging, active, cache, started, bqStamp, gcsStamp, authVars, everStaged>>

\* a slip: the old staging blob is deleted before the extraction
StageWriteDeletesFirst(blobs, key, arrow, queryOk, saveOk) ==
    IF queryOk /\ saveOk
    THEN SaveParquet(blobs, key, arrow)
    ELSE [blobs EXCEPT ![key] = NoBlob]

StageWriteAll(blobs, key, arrow, queryOk, saveOk) ==
    IF queryOk /\ saveOk THEN [k \in Keys |-> Serialize(arrow)] ELSE blobs

\* the staging blobs after one iteration for key: the query, then the save
StageWrite(blobs, key, arrow, queryOk, saveOk) ==
    IF queryOk /\ saveOk THEN SaveParquet(blobs, key, arrow) ELSE blobs

\* one iteration of the loop of refresh_daedalus_bq_to_staging
StageTable(t) ==
    /\ Running(t, "stage")
    /\ call[t].idx <= NTables
    /\ LET c == call[t]
           key == Tables[c.idx]
       IN IF key \in c.skip
          THEN /\ call' = [call EXCEPT ![t] = Advance(c)]
               /\ UNCHANGED <<staging, everStaged>>
          ELSE \E queryOk \in BOOLEAN, saveOk \in BOOLEAN :
                 /\ staging' = StageWrite(staging, key, <<"arrow", c.seq>>, queryOk, saveOk)
                 /\ everStaged' = [everStaged EXCEPT ![key] = @ \cup {staging'[key]}]
                 /\ call' = [call EXCEPT ![t] =
                               IF queryOk /\ saveOk THEN Completed(c, key)
                               ELSE Raise(c, key, IF queryOk THEN "save" ELSE "query")]
    /\ UNCHANGED <<active, cache, started, bqStamp, gcsStamp, authVars, ncalls>>

\* after the loop: set_metadata_timestamp and the return
StageFinish(t) ==
    /\ Running(t, "stage")
    /\ call[t].idx > NTables
    /\ \E ok \in BOOLEAN :
         /\ bqStamp' = IF ok THEN now ELSE bqStamp
         /\ call' = [call EXCEPT ![t] = IF ok THEN [@ EXCEPT !.st = "ok"] ELSE Raise(@, "", "stamp")]
    /\ UNCHANGED <<staging, active, cache, started, gcsStamp, authVars, ncalls, everStaged>>

\* refresh_daedalus_gcs_from_staging: the bucket
StartPromote(t, overlap) ==
    /\ CanStart(t, overlap)
    /\ \E p \in started, skip \in SkipChoices, ok \in BOOLEAN :
         call' = [call EXCEPT ![t] = NewCall("promote", p, skip, ok, overlap)]
    /\ ncalls' = ncalls + 1
    /\ UNCHANGED <<staging, active, cache, started, bqStamp, gcsStamp, authVars, everStaged>>

\* the call after load_parquet_from_gcs(bucket, config["staging"]): None skips
\* the table.  was: the active blob of the table as this iteration found it
AfterLoad(c, arrow) ==
    IF arrow = NoBlob
    THEN Advance(c)
    ELSE [c EXCEPT !.phase = "save", !.arrow = arrow, !.was = active[Tables[c.idx]]]

\* a slip: a failed save leaves the active blob deleted
ActiveAfterSaveTorn(blobs, key, arrow, saveOk) ==
    IF saveOk THEN SaveParquet(blobs, key, arrow) ELSE [blobs EXCEPT ![key] = NoBlob]

\* the active blobs after save_parquet_to_gcs(bucket, config["active"], ...)
ActiveAfterSave(blobs, key, arrow, saveOk) ==
    IF saveOk THEN SaveParquet(blobs, key, arrow) ELSE blobs

\* skip test and load of the staging blob
PromoteLoad(t) ==
    /\ Running(t, "promote")
    /\ call[t].idx <= NTables
    /\ call[t].phase = "load"
    /\ LET c == call[t]
           key == Tables[c.idx]
       IN IF key \in c.skip
          THEN call' = [call EXCEPT ![t] = Advance(c)]
          ELSE call' = [call EXCEPT ![t] = AfterLoad(c, LoadParquet(staging, key))]
    /\ UNCHANGED <<staging, active, cache, started, bqStamp, gcsStamp, authVars, ncalls, everStaged>>

\* save_parquet_to_gcs(bucket, config["active"], arrow_table)
PromoteSave(t) ==
    /\ Running(t, "promote")
    /\ call[t].phase = "save"
    /\ LET c == call[t]
           key == Tables[c.idx]
       IN \E saveOk \in BOOLEAN :
            /\ active' = ActiveAfterSave(active, key, c.arrow, saveOk)
            /\ call' = [call EXCEPT ![t] =
                          IF saveOk THEN [c EXCEPT !.phase = "assign"]
                          ELSE Raise(c, key, "save")]
    /\ UNCHANGED <<staging, cache, started, bqStamp, gcsStamp, authVars, ncalls, everStaged>>

\* _daedalus_cache[key] = arrow_table.to_pandas()
PromoteAssign(t) ==
    /\ Running(t, "promote")
    /\ call[t].phase = "assign"
    /\ LET c == call[t]
           key == Tables[c.idx]
       IN \E convOk \in BOOLEAN :
            /\ cache' = IF convOk
                        THEN [cache EXCEPT ![c.proc] = CacheAssign(@, key, ToPandas(c.arrow))]
                        ELSE cache
            /\ call' = [call EXCEPT ![t] =
                          IF convOk THEN Completed(c, key) ELSE Raise(c, key, "conv")]
    /\ UNCHANGED <<staging, active, started, bqStamp, gcsStamp, authVars, ncalls, everStaged>>

\* after the loop: set_metadata_timestamp and the return
PromoteFinish(t) ==
    /\ Running(t, "promote")
    /\ call[t].idx > NTables
    /\ \E ok \in BOOLEAN :
         /\ gcsStamp' = IF ok THEN now ELSE gcsStamp
         /\ call' = [call EXCEPT ![t] = IF ok THEN [@ EXCEPT !.st = "ok"] ELSE Raise(@, "", "stamp")]
    /\ UNCHANGED <<staging, active, cache, started, bqStamp, authVars, ncalls, everStaged>>

\* the caller has the (success, message) pair; the thread is free again
Return(t) ==
    /\ call[t] # Idle
    /\ call[t].st # "run"
    /\ call' = [call EXCEPT ![t] = Idle]
    /\ UNCHANGED <<staging, active, cache, started, bqStamp, gcsStamp, authVars, ncalls, everStaged>>

PipeStep(overlap) ==
    \/ \E p \in Procs : Preload(p)
    \/ \E t \in Threads : StartStage(t, overlap)
    \/ \E t \in Threads : StageTable(t)
    \/ \E t \in Threads : StageFinish(t)
    \/ \E t \in Threads : StartPromote(t, overlap)
    \/ \E t \in Threads : PromoteLoad(t)
    \/ \E t \in Threads : PromoteSave(t)
    \/ \E t \in Threads : PromoteAssign(t)
    \/ \E t \in Threads : PromoteFinish(t)
    \/ \E t \in Threads : Return(t)

\* operator-triggered calls, one at a time
Next == PipeStep(FALSE)
Spec == Init /\ [][Next]_vars

\* calls of different requests overlap
NextConc == PipeStep(TRUE)
SpecConc == Init /\ [][NextConc]_vars

\* ======================================================================
\* Session and user store (app/auth.py)
\* ======================================================================
\* every handler below takes, as an input, whether the bucket can be reached
\* while it runs (up) or not; a read that finds its session expired takes a
\* second one for the delete it makes (delUp)

\* the outcomes of a call to the bucket: it is reached or not; one outcome for
\* a call that the handler does not make
Outcomes(called) == IF called THEN BOOLEAN ELSE {TRUE}

\* load_users_from_gcs(): None when the bucket or the document is missing
LoadUsers(doc, up) ==
    IF up /\ doc.exists
    THEN [found |-> TRUE, users |-> doc.users]
    ELSE [found |-> FALSE, users |-> <<>>]

\* save_users_to_gcs(users): the document is replaced whole; a failure is
\* reported by the return value only
SaveUsers(doc, users, up) == IF up THEN [exists |-> TRUE, users |-> users] ELSE doc

\* the memory cache is valid for 5 minutes
CacheFresh(entry, t) == entry.loaded /\ (t - entry.loaded_at) < CacheWindow

\* get_users_db(): the users returned, and the cache entry and the document
\* it leaves; dflt: DEFAULT_USERS as the process has it
GetUsersDb(entry, doc, dflt, t, loadUp, saveUp) ==
    IF CacheFresh(entry, t)
    THEN [users |-> entry.data, entry |-> entry, doc |-> doc]
    ELSE IF LoadUsers(doc, loadUp).found
    THEN [users |-> LoadUsers(doc, loadUp).users,
          entry |-> [loaded |-> TRUE, data |-> LoadUsers(doc, loadUp).users,
                     loaded_at |-> t, shared |-> {}],
          doc |-> doc]
    ELSE [users |-> dflt,
          entry |-> [loaded |-> TRUE, data |-> dflt, loaded_at |-> t,
                     shared |-> DOMAIN dflt],
          doc |-> SaveUsers(doc, dflt, saveUp)]

\* the session_data dict of create_session
SessionData(sid, user, remember, t) ==
    [session_id |-> sid,
     user |-> user,
     authenticated |-> TRUE,
     created_at |-> IsoFormat(t),
     expires_at |-> IsoFormat(t + IF remember THEN SESSION_TTL_REMEMBER
                                             ELSE SESSION_TTL_DEFAULT),
     remember_me |-> remember]

\* save_session_to_gcs(session_id, data): True when the blob was written
SaveSession(store, sid, data, up) ==
    IF up
    THEN [ok |-> TRUE,
          store |-> [k \in DOMAIN store \cup {sid} |-> IF k = sid THEN data ELSE store[k]]]
    ELSE [ok |-> FALSE, store |-> store]

\* delete_session_from_gcs(session_id)
DeleteSession(store, sid, up) ==
    IF up THEN [k \in DOMAIN store \ {sid} |-> store[k]] ELSE store

\* a slip: a session counts as expired from the instant expires_at on
ExpiredAtBoundary(t, expires_at) == t >= expires_at

\* the expiry test of load_session_from_gcs
Expired(t, expires_at) == t > expires_at

\* what a read returns when it finds no session: None, the blobs as they were
Absent(store) ==
    [found |-> FALSE, data |-> <<>>, store |-> store, expired |-> FALSE,
     deleted |-> FALSE]

\* a slip: an expired session is reported absent and its blob is left
LoadSessionKeepsExpired(store, sid, t, up, delUp) ==
    IF ~up \/ sid \notin DOMAIN store
    THEN Absent(store)
    ELSE IF Expired(t, FromIso(store[sid].expires_at))
    THEN [Absent(store) EXCEPT !.expired = TRUE, !.deleted = delUp]
    ELSE [Absent(store) EXCEPT !.found = TRUE, !.data = store[sid]]

\* load_session_from_gcs(session_id): the data returned (found) or None, and
\* the session blobs it leaves; expired: the expiry branch ran; deleted: what
\* delete_session_from_gcs returned in it
LoadSession(store, sid, t, up, delUp) ==
    IF ~up \/ sid \notin DOMAIN store
    THEN Absent(store)
    ELSE IF Expired(t, FromIso(store[sid].expires_at))
    THEN [Absent(DeleteSession(store, sid, delUp)) EXCEPT !.expired = TRUE,
                                                         !.deleted = delUp]
    ELSE [Absent(store) EXCEPT !.found = TRUE, !.data = store[sid]]

\* get_session_data(session_id): None for an empty id, without a read
GetData(store, sid, t, up, delUp) ==
    IF sid = EmptySid THEN Absent(store) ELSE LoadSession(store, sid, t, up, delUp)

\* a slip: is_authenticated looks the user of the session up in the users
\* document
AuthResultChecksAccount(r) ==
    /\ r.found /\ r.data.authenticated
    /\ usersDoc.exists /\ r.data.user.username \in DOMAIN usersDoc.users

\* is_authenticated(session_id), given what get_session_data returned
AuthResult(r) == r.found /\ r.data.authenticated

\* the result create_session hands to authenticate: the id and the expiry,
\* whatever save_session_to_gcs returned
CreateResult(sid, data, saved) ==
    [success |-> TRUE, sid |-> sid, expires_at |-> FromIso(data.expires_at)]

\* time passes
Tick ==
    /\ now < MaxNow
    /\ now' = now + 1
    /\ ret' = [op |-> "tick"]
    /\ UNCHANGED <<pipeVars, sessions, nsessions, usersDoc, usersCache, defaults, writes>>

\* a slip: the failed login hands back a session id
LoginFailedWithSid ==
    [op |-> "authenticate", success |-> FALSE, sid |-> MalformedSid, expires_at |-> 0]

\* return False, None, None
LoginFailed ==
    [op |-> "authenticate", success |-> FALSE, sid |-> EmptySid, expires_at |-> 0]

\* authenticate(username, password, remember_me) in process p
Authenticate(p, username, password, remember) ==
    /\ nsessions < MaxSessions
    /\ \E loadUp \in Outcomes(~CacheFresh(usersCache[p], now)) :
       \E saveUp \in Outcomes(~CacheFresh(usersCache[p], now)
                                  /\ ~LoadUsers(usersDoc, loadUp).found) :
         LET g == GetUsersDb(usersCache[p], usersDoc, defaults[p], now, loadUp, saveUp)
             known == username \in DOMAIN g.users /\ g.users[username].password = password
             sid == nsessions + 1
             user == [username |-> username,
                      role |-> g.users[username].role,
                      name |-> g.users[username].name,
                      dashboards |-> g.users[username].dashboards]
             data == SessionData(sid, user, remember, now)
         IN /\ usersCache' = [usersCache EXCEPT ![p] = g.entry]
            /\ usersDoc' = g.doc
            /\ IF known
               THEN \E sessUp \in BOOLEAN :
                      LET saved == SaveSession(sessions, sid, data, sessUp)
                      IN /\ sessions' = saved.store
                         /\ nsessions' = sid
                         /\ ret' = [op |-> "authenticate"] @@ CreateResult(sid, data, saved.ok)
               ELSE /\ UNCHANGED <<sessions, nsessions>>
                    /\ ret' = LoginFailed
    /\ UNCHANGED <<pipeVars, now, defaults, writes>>

\* get_session_data(session_id)
GetSessionData(sid) ==
    /\ \E up \in BOOLEAN :
       \E delUp \in Outcomes(GetData(sessions, sid, now, up, TRUE).expired) :
         LET r == GetData(sessions, sid, now, up, delUp)
         IN /\ sessions' = r.store
            /\ ret' = [op |-> "get_session_data", sid |-> sid, up |-> up,
                       found |-> r.found, data |-> r.data, expired |-> r.expired,
                       deleted |-> r.deleted]
    /\ UNCHANGED <<pipeVars, now, nsessions, usersDoc, usersCache, defaults, writes>>

\* is_authenticated(session_id)
IsAuthenticated(sid) ==
    /\ \E up \in BOOLEAN :
       \E delUp \in Outcomes(GetData(sessions, sid, now, up, TRUE).expired) :
         LET r == GetData(sessions, sid, now, up, delUp)
         IN /\ sessions' = r.store
            /\ ret' = [op |-> "is_authenticated", sid |-> sid, up |-> up,
                       result |-> AuthResult(r)]
    /\ UNCHANGED <<pipeVars, now, nsessions, usersDoc, usersCache, defaults, writes>>

\* logout(session_id)
Logout(sid) ==
    /\ \E up \in BOOLEAN :
         sessions' = IF sid = EmptySid THEN sessions ELSE DeleteSession(sessions, sid, up)
    /\ ret' = [op |-> "logout", sid |-> sid]
    /\ UNCHANGED <<pipeVars, now, nsessions, usersDoc, usersCache, defaults, writes>>

NextAuth ==
    \/ Tick
    \/ \E p \in Procs, u \in Usernames, pw \in Passwords, rm \in BOOLEAN :
         Authenticate(p, u, pw, rm)
    \/ \E sid \in SidInputs : GetSessionData(sid)
    \/ \E sid \in SidInputs : IsAuthenticated(sid)
    \/ \E sid \in SidInputs : Logout(sid)

\* the auth module, on a new bucket
InitAuth == Init /\ \A k \in Keys : staging[k] = NoBlob
SpecAuth == InitAuth /\ [][NextAuth]_vars

\* ======================================================================
\* User administration and access checks (app/auth.py)
\* ======================================================================
\* the string "all" of a dashboards field is written <<"all">>, a list of
\* dashboard ids is the sequence of them; no dashboard has the id "all"
AllDashboards == <<"all">>

\* an argument left at None (or passed empty: both are falsy)
NoArg == ""

Roles == {"readonly", "admin", "super_admin"}

\* app.config: the dashboards of the deployment
DASHBOARDS ==
    <<[id |-> "daedalus", enabled |-> TRUE],
      [id |-> "icarus", enabled |-> TRUE],
      [id |-> "legacy", enabled |-> FALSE]>>

DashboardIds == {DASHBOARDS[i].id : i \in DOMAIN DASHBOARDS}

\* users[user_id] = rec, and del users[user_id]
WithUser(users, id, rec) ==
    [k \in DOMAIN users \cup {id} |-> IF k = id THEN rec ELSE users[k]]
WithoutUser(users, id) == [k \in DOMAIN users \ {id} |-> users[k]]

\* the record add_user stores
NewUser(password, role, name, dashboards) ==
    [password |-> password, role |-> role, name |-> name,
     dashboards |-> IF role = "readonly" THEN dashboards ELSE AllDashboards]

\* a slip: update_user stores its arguments as they are, passed or not
UpdatedUserReplaces(rec, password, role, name, hasDash, dashboards) ==
    [password |-> password,
     role |-> IF role # NoArg THEN role ELSE rec.role,
     name |-> name,
     dashboards |-> IF role = "admin" THEN AllDashboards
                    ELSE IF hasDash /\ role \in {NoArg, "readonly"} /\ rec.role = "readonly"
                         THEN dashboards ELSE rec.dashboards]

\* the record update_user leaves; hasDash: dashboards is not None
UpdatedUser(rec, password, role, name, hasDash, dashboards) ==
    LET r1 == IF password # NoArg THEN [rec EXCEPT !.password = password] ELSE rec
        r2 == IF role # NoArg
              THEN [r1 EXCEPT !.role = role,
                              !.dashboards = IF role = "admin" THEN AllDashboards ELSE @]
              ELSE r1
        r3 == IF name # NoArg THEN [r2 EXCEPT !.name = name] ELSE r2
    IN IF hasDash /\ r3.role = "readonly" THEN [r3 EXCEPT !.dashboards = dashboards] ELSE r3

\* update_users_db(users): the cache entry and the document it leaves; the
\* value of save_users_to_gcs is dropped (saved keeps it for the record)
UpdateUsersDb(entry, doc, users, t, saveUp) ==
    [entry |-> [entry EXCEPT !.loaded = TRUE, !.data = users, !.loaded_at = t],
     doc |-> SaveUsers(doc, users, saveUp),
     saved |-> saveUp]

\* the lookup every handler of the user store starts with
Lookup(p, loadUp, saveUp) ==
    GetUsersDb(usersCache[p], usersDoc, defaults[p], now, loadUp, saveUp)

\* a slip: a write that is turned down drops the cache of the process
RejectedDropsCache(p, g, op, id, role, msg) ==
    /\ usersCache' = [usersCache EXCEPT ![p] = NoEntry]
    /\ usersDoc' = g.doc
    /\ ret' = [op |-> op, proc |-> p, id |-> id, role |-> role, success |-> FALSE,
               msg |-> msg, saved |-> FALSE]
    /\ UNCHANGED <<defaults, writes>>

\* a write is turned down: only the lookup has acted.  role: the role
\* argument of the call
Rejected(p, g, op, id, role, msg) ==
    /\ usersCache' = [usersCache EXCEPT ![p] = g.entry]
    /\ usersDoc' = g.doc
    /\ ret' = [op |-> op, proc |-> p, id |-> id, role |-> role, success |-> FALSE,
               msg |-> msg, saved |-> FALSE]
    /\ UNCHANGED <<defaults, writes>>

\* a write goes through update_users_db and returns True
Accepted(p, g, op, id, role, msg, users, saveUp) ==
    LET u == UpdateUsersDb(g.entry, g.doc, users, now, saveUp)
    IN /\ usersCache' = [usersCache EXCEPT ![p] = u.entry]
       /\ usersDoc' = u.doc
       /\ writes' = Append(writes, [op |-> op, proc |-> p, id |-> id])
       /\ ret' = [op |-> op, proc |-> p, id |-> id, role |-> role, success |-> TRUE,
                  msg |-> msg, saved |-> u.saved]

\* get_all_users() in process p: the dict returned is the one the cache holds
GetAll(p) ==
    /\ \E loadUp \in Outcomes(~CacheFresh(usersCache[p], now)) :
       \E saveUp \in Outcomes(~CacheFresh(usersCache[p], now)
                                  /\ ~LoadUsers(usersDoc, loadUp).found) :
         LET g == Lookup(p, loadUp, saveUp)
         IN /\ usersCache' = [usersCache EXCEPT ![p] = g.entry]
            /\ usersDoc' = g.doc
            /\ ret' = [op |-> "get_all", proc |-> p,
                       fresh |-> CacheFresh(usersCache[p], now)]
    /\ UNCHANGED <<pipeVars, now, sessions, nsessions, defaults, writes>>

\* invalidate_users_cache() in process p
Invalidate(p) ==
    /\ usersCache' = [usersCache EXCEPT ![p] = NoEntry]
    /\ ret' = [op |-> "invalidate", proc |-> p]
    /\ UNCHANGED <<pipeVars, now, sessions, nsessions, usersDoc, defaults, writes>>

\* add_user(user_id, password, role, name, dashboards) in process p
AddUser(p, id, password, role, name, dashboards) ==
    /\ Len(writes) < MaxWrites
    /\ \E loadUp \in Outcomes(~CacheFresh(usersCache[p], now)) :
       \E saveUp \in Outcomes(~CacheFresh(usersCache[p], now)
                                  /\ ~LoadUsers(usersDoc, loadUp).found) :
         LET g == Lookup(p, loadUp, saveUp)
         IN IF id \in DOMAIN g.users
            THEN Rejected(p, g, "add_user", id, role, "User ID already exists")
            ELSE /\ \E up \in BOOLEAN :
                      Accepted(p, g, "add_user", id, role, "User created successfully",
                               WithUser(g.users, id, NewUser(password, role, name, dashboards)),
                               up)
                 /\ UNCHANGED defaults
    /\ UNCHANGED <<pipeVars, now, sessions, nsessions>>

\* update_user(user_id, password, role, name, dashboards) in process p; a
\* record shared with DEFAULT_USERS is changed there too
UpdateUser(p, id, password, role, name, hasDash, dashboards) ==
    /\ Len(writes) < MaxWrites
    /\ \E loadUp \in Outcomes(~CacheFresh(usersCache[p], now)) :
       \E saveUp \in Outcomes(~CacheFresh(usersCache[p], now)
                                  /\ ~LoadUsers(usersDoc, loadUp).found) :
         LET g == Lookup(p, loadUp, saveUp)
             rec == UpdatedUser(g.users[id], password, role, name, hasDash, dashboards)
         IN IF id \notin DOMAIN g.users
            THEN Rejected(p, g, "update_user", id, role, "User not found")
            ELSE /\ \E up \in BOOLEAN :
                      Accepted(p, g, "update_user", id, role, "User updated successfully",
                               WithUser(g.users, id, rec), up)
                 /\ defaults' = IF id \in g.entry.shared
                                THEN [defaults EXCEPT ![p] = WithUser(@, id, rec)]
                                ELSE defaults
    /\ UNCHANGED <<pipeVars, now, sessions, nsessions>>

\* delete_user(user_id) in process p
DeleteUser(p, id) ==
    /\ Len(writes) < MaxWrites
    /\ \E loadUp \in Outcomes(~CacheFresh(usersCache[p], now)) :
       \E saveUp \in Outcomes(~CacheFresh(usersCache[p], now)
                                  /\ ~LoadUsers(usersDoc, loadUp).found) :
         LET g == Lookup(p, loadUp, saveUp)
             left == [g EXCEPT !.entry.shared = @ \ {id}]
         IN IF id \notin DOMAIN g.users
            THEN Rejected(p, g, "delete_user", id, NoArg, "User not found")
            ELSE IF id = "admin"
            THEN Rejected(p, g, "delete_user", id, NoArg, "Cannot delete admin user")
            ELSE /\ \E up \in BOOLEAN :
                      Accepted(p, left, "delete_user", id, NoArg, "User deleted successfully",
                               WithoutUser(g.users, id), up)
                 /\ UNCHANGED defaults
    /\ UNCHANGED <<pipeVars, now, sessions, nsessions>>

\* no user: what get_current_user returns for a session that is not found
NoUser == [username |-> "", role |-> "", name |-> "", dashboards |-> <<>>]

\* a slip: the user is looked up in the users document when the session is read
CurrentUserLive(r) ==
    IF r.found /\ usersDoc.exists /\ r.data.user.username \in DOMAIN usersDoc.users
    THEN [username |-> r.data.user.username,
          role |-> usersDoc.users[r.data.user.username].role,
          name |-> usersDoc.users[r.data.user.username].name,
          dashboards |-> usersDoc.users[r.data.user.username].dashboards]
    ELSE NoUser

\* get_current_user, given what get_session_data returned
CurrentUser(r) == IF r.found THEN r.data.user ELSE NoUser

\* dashboard_id in user.get("dashboards", [])
Listed(user, d) == \E i \in DOMAIN user.dashboards : user.dashboards[i] = d

\* can_access_dashboard, given the user get_current_user returned
CanAccess(user, d) ==
    IF user = NoUser
    THEN FALSE
    ELSE IF ~\E i \in DOMAIN DASHBOARDS : DASHBOARDS[i].id = d /\ DASHBOARDS[i].enabled
    THEN FALSE
    ELSE IF user.role = "admin" \/ user.dashboards = AllDashboards
    THEN TRUE
    ELSE Listed(user, d)

\* get_accessible_dashboards, given the user get_current_user returned
Accessible(user) ==
    IF user = NoUser
    THEN <<>>
    ELSE IF user.role = "admin" \/ user.dashboards = AllDashboards
    THEN DASHBOARDS
    ELSE SelectSeq(DASHBOARDS, LAMBDA x : Listed(user, x.id))

\* get_current_user(session_id)
GetCurrentUser(sid) ==
    /\ \E up \in BOOLEAN :
       \E delUp \in Outcomes(GetData(sessions, sid, now, up, TRUE).expired) :
         LET r == GetData(sessions, sid, now, up, delUp)
         IN /\ sessions' = r.store
            /\ ret' = [op |-> "get_current_user", sid |-> sid, found |-> r.found,
                       user |-> CurrentUser(r)]
    /\ UNCHANGED <<pipeVars, now, nsessions, usersDoc, usersCache, defaults, writes>>

\* can_access_dashboard(session_id, dashboard_id)
CanAccessDashboard(sid, d) ==
    /\ \E up \in BOOLEAN :
       \E delUp \in Outcomes(GetData(sessions, sid, now, up, TRUE).expired) :
         LET r == GetData(sessions, sid, now, up, delUp)
         IN /\ sessions' = r.store
            /\ ret' = [op |-> "can_access_dashboard", sid |-> sid, found |-> r.found,
                       dashboard |-> d, result |-> CanAccess(CurrentUser(r), d)]
    /\ UNCHANGED <<pipeVars, now, nsessions, usersDoc, usersCache, defaults, writes>>

\* get_accessible_dashboards(session_id)
GetAccessibleDashboards(sid) ==
    /\ \E up \in BOOLEAN :
       \E delUp \in Outcomes(GetData(sessions, sid, now, up, TRUE).expired) :
         LET r == GetData(sessions, sid, now, up, delUp)
         IN /\ sessions' = r.store
            /\ ret' = [op |-> "get_accessible_dashboards", sid |-> sid, found |-> r.found,
                       result |-> Accessible(CurrentUser(r))]
    /\ UNCHANGED <<pipeVars, now, nsessions, usersDoc, usersCache, defaults, writes>>

\* arguments tried by the administration handlers
NewIds == {"x", "viewer"}
EditIds == {"admin", "viewer", "ghost"}
NewRoles == {"readonly", "admin"}
Edits ==
    {[password |-> NoArg, role |-> "readonly", name |-> NoArg, hasDash |-> TRUE],
     [password |-> NoArg, role |-> "admin", name |-> NoArg, hasDash |-> TRUE],
     [password |-> NoArg, role |-> "super_admin", name |-> NoArg, hasDash |-> TRUE],
     [password |-> "pw_new", role |-> NoArg, name |-> "Renamed", hasDash |-> FALSE]}

\* the user store with its administration (no sessions): the administrator
\* is served by the first process, readers by both
NextUsers ==
    \/ Tick
    \/ \E p \in Procs : GetAll(p)
    \/ \E p \in Procs : Invalidate(p)
    \/ \E id \in NewIds, role \in NewRoles :
         AddUser("w1", id, "pw_x", role, "X", <<"icarus">>)
    \/ \E id \in EditIds, e \in Edits :
         UpdateUser("w1", id, e.password, e.role, e.name, e.hasDash, <<"icarus">>)
    \/ \E id \in EditIds \cup NewIds : DeleteUser("w1", id)

SpecUsers == InitAuth /\ [][NextUsers]_vars

\* sessions of a user that is edited, in one process
NextAccess ==
    \/ Tick
    \/ Authenticate("w1", "viewer", "pw_viewer", TRUE)
    \/ \E role \in {"admin", "super_admin"} :
         UpdateUser("w1", "viewer", NoArg, role, NoArg, FALSE, <<>>)
    \/ \E sid \in 1..MaxSessions : GetCurrentUser(sid)
    \/ \E sid \in 1..MaxSessions, d \in DashboardIds : CanAccessDashboard(sid, d)
    \/ \E sid \in 1..MaxSessions : GetAccessibleDashboards(sid)

SpecAccess == InitAuth /\ [][NextAccess]_vars

\* ======================================================================
\* Properties of the refresh pipeline
\* ======================================================================

\* the call of thread t has returned to its caller (success or failure)
Returned(t, op) == call[t].op = op /\ call[t].st # "run"

\* the tables a call goes through
Wanted(c) == Keys \ c.skip

\* table k is promoted by call c: the active blob and the cache slot of the
\* process hold the staging content the call found
Promoted(c, k) ==
    /\ active[k] = c.pre.staging[k]
    /\ GetDf(cache[c.proc], k) = ToPandas(Deserialize(c.pre.staging[k]))

\* C1: when the extraction of table T fails in a stage call, the staging blob
\* of T after the call equals the staging blob of T before the call.
C1_StagingIsolation ==
    \A t \in Threads :
        (Returned(t, "stage") /\ call[t].why = "query")
            => staging[call[t].failed] = call[t].pre.staging[call[t].failed]

\* a stage call that staged one table, then failed to extract a table that
\* had a staging blob
C1_Witness ==
    \E t \in Threads :
        /\ Returned(t, "stage")
        /\ call[t].why = "query"
        /\ call[t].done # {}
        /\ call[t].pre.staging[call[t].failed] # NoBlob

\* C2: when the extraction of one table T fails in a stage call, the call
\* returns success and every other table it was asked for holds the new
\* snapshot in its staging blob.
C2_PerTableIsolation ==
    \A t \in Threads :
        (Returned(t, "stage") /\ call[t].why = "query")
            => /\ call[t].st = "ok"
               /\ \A k \in Wanted(call[t]) \ {call[t].failed} :
                    staging[k] = Parquet(call[t].seq)

\* C3: when table T has no staging blob as a promote call runs, the active
\* blob and the cache slot of T are after the call what they were before it,
\* and every other table of the call that has a staging blob (and did not
\* itself fail) is promoted.
C3_MissingStaging ==
    \A t \in Threads :
        (Returned(t, "promote") /\ call[t].why # "bucket")
            => \A T \in Wanted(call[t]) :
                 call[t].pre.staging[T] = NoBlob
                    => /\ active[T] = call[t].pre.active[T]
                       /\ GetDf(cache[call[t].proc], T) = GetDf(call[t].pre.cache, T)
                       /\ \A U \in Wanted(call[t]) \ {T, call[t].failed} :
                            call[t].pre.staging[U] # NoBlob => Promoted(call[t], U)

\* C4: when the copy or the reload of one table fails in a promote call, every
\* other table of the call that has a staging blob is promoted.
C4_PromotionIndependence ==
    \A t \in Threads :
        (Returned(t, "promote") /\ call[t].why \in {"save", "conv"})
            => \A V \in Wanted(call[t]) \ {call[t].failed} :
                 call[t].pre.staging[V] # NoBlob => Promoted(call[t], V)

\* C5: once a promote call has promoted table T and returned, _get_df(T) in
\* every worker process returns the content of the active blob of T.
C5_ReadYourWrite ==
    \A t \in Threads :
        Returned(t, "promote")
            => \A T \in call[t].done : \A p \in started :
                 GetDf(cache[p], T) = ToPandas(Deserialize(active[T]))

\* the promote calls of process p that are about to assign the slot of table k
Assigning(p, k) ==
    {t \in Threads : /\ Running(t, "promote")
                     /\ call[t].phase = "assign"
                     /\ call[t].proc = p
                     /\ Tables[call[t].idx] = k}

\* C6: in a process that serves requests, every step leaves what _get_df(T)
\* returns either as it was or equal to the complete table a promote call of
\* that process is assigning: a reader sees the old table or the new one,
\* never an empty, absent or partial slot in between.
C6_WholeValueSwap ==
    [][\A p \in started : \A k \in Keys :
          \/ GetDf(cache'[p], k) = GetDf(cache[p], k)
          \/ \E t \in Assigning(p, k) : GetDf(cache'[p], k) = ToPandas(call[t].arrow)]_vars

\* a promote call is about to replace a loaded table by a different one
C6_Witness ==
    \E p \in started : \E k \in Keys : \E t \in Assigning(p, k) :
        /\ GetDf(cache[p], k) # EmptyDF
        /\ GetDf(cache[p], k) # ToPandas(call[t].arrow)

\* the active blob of every table is the content the bucket started with or
\* a content its staging blob held
ActiveWasStaged ==
    \A k \in Keys : active[k] \in {NoBlob, Parquet(0)} \cup everStaged[k]

\* the promote calls that are about to save the active blob of table k
Saving(k) ==
    {t \in Threads : /\ Running(t, "promote")
                     /\ call[t].phase = "save"
                     /\ Tables[call[t].idx] = k}

C8_SessionFailsClosed ==
    (ret.op = "authenticate" /\ ret.success) => ret.sid \in DOMAIN sessions

\* expires_at of the stored session s
ExpiresAt(s) == FromIso(sessions[s].expires_at)

ValidSession(s) == s \in DOMAIN sessions /\ ~(now > ExpiresAt(s))

C12_LogoutDestroysSession ==
    ret.op = "logout" => ret.sid \notin DOMAIN sessions

\* ======================================================================
\* Properties of the user store and of the access checks
\* ======================================================================

\* C11: the user a session carries is the record the users had at login; no
\* step changes it while the session exists, and get_current_user(s) returns
\* it, whatever update_user has made of that user since.
C11_SessionIsolation ==
    [][/\ \A s \in DOMAIN sessions \cap DOMAIN sessions' :
            sessions'[s].user = sessions[s].user
       /\ (ret'.op = "authenticate" /\ ret'.success /\ ret'.sid \in DOMAIN sessions')
            => LET u == sessions'[ret'.sid].user
                   rec == usersCache'["w1"].data[u.username]
               IN /\ ret'.sid \notin DOMAIN sessions
                  /\ u.role = rec.role /\ u.name = rec.name
                  /\ u.dashboards = rec.dashboards
       /\ (ret'.op = "get_current_user" /\ ret'.found)
            => ret'.user = sessions[ret'.sid].user]_vars

\* get_current_user reports readonly for a user the users document has as admin
C11_Witness ==
    /\ ret.op = "get_current_user"
    /\ ret.found
    /\ ret.user.role = "readonly"
    /\ usersDoc.exists
    /\ usersDoc.users[ret.user.username].role = "admin"

\* the calls that write the user store
WriteOps == {"add_user", "update_user", "delete_user"}

\* the last call was a write of the user store that returned True / False
WriteAccepted(r) == r.op \in WriteOps /\ r.success
WriteRejected(r) == r.op \in WriteOps /\ ~r.success

\* C13: when add_user, update_user or delete_user has returned success, the
\* users document exists in the bucket, holds the change, and equals the
\* cache of the process.
C13_WriteThrough ==
    WriteAccepted(ret)
        => /\ usersDoc.exists
           /\ usersDoc.users = usersCache[ret.proc].data
           /\ (ret.id \in DOMAIN usersDoc.users) = (ret.op # "delete_user")

\* C14: where the users document exists, get_all leaves it as it is and
\* returns its content, or the cache of the process while that is fresh.
C14_SeedOnlyOnFirstRun ==
    [][(ret'.op = "get_all" /\ usersDoc.exists)
          => /\ usersDoc' = usersDoc
             /\ usersCache'[ret'.proc].data =
                  IF ret'.fresh THEN usersCache[ret'.proc].data ELSE usersDoc.users]_vars

\* the ids that a write of another process than B added, and that no later
\* write deleted
AddedElsewhere(B) ==
    {writes[i].id : i \in {j \in DOMAIN writes :
        /\ writes[j].op = "add_user"
        /\ writes[j].proc # B
        /\ \A k \in DOMAIN writes :
              (k > j /\ writes[k].id = writes[j].id) => writes[k].op # "delete_user"}}

\* C15: get_all in process B returns the cache of B while it is fresh; once
\* the window of a cache that lacks a user added by another process has
\* elapsed, get_all in B returns a view that has that user.
C15_CrossProcessFreshness ==
    [][ret'.op = "get_all"
          => LET B == ret'.proc
             IN /\ ret'.fresh => usersCache'[B].data = usersCache[B].data
                /\ (~ret'.fresh /\ usersCache[B].loaded)
                      => \A x \in AddedElsewhere(B) :
                            x \in DOMAIN usersCache'[B].data]_vars

\* C16 (as claimed): a write that is turned down leaves the cache content of
\* the process and the users document unchanged.
C16_RejectedChangesNothing ==
    [][WriteRejected(ret')
          => /\ usersCache'[ret'.proc].data = usersCache[ret'.proc].data
             /\ usersDoc' = usersDoc]_vars

\* C16 (amended): a write that is turned down returns False and changes
\* nothing beyond what the get_users_db lookup it starts with does: with a
\* fresh cache, nothing; otherwise the cache is reloaded from the users
\* document, or, when that cannot be read, filled with the defaults, which are
\* then written to the bucket.
C16_RejectedOnlyLooksUp ==
    [][WriteRejected(ret')
          => /\ defaults' = defaults
             /\ \E loadUp \in BOOLEAN, saveUp \in BOOLEAN :
                  /\ usersCache' = [usersCache EXCEPT ![ret'.proc] =
                                      Lookup(ret'.proc, loadUp, saveUp).entry]
                  /\ usersDoc' = Lookup(ret'.proc, loadUp, saveUp).doc
             /\ CacheFresh(usersCache[ret'.proc], now)
                  => usersCache' = usersCache /\ usersDoc' = usersDoc]_vars

\* the delete of the protected user was turned down in a process whose cache
\* is fresh and holds a user that was added
C16_Witness ==
    /\ WriteRejected(ret)
    /\ ret.op = "delete_user"
    /\ ret.id = "admin"
    /\ usersDoc.exists
    /\ "x" \in DOMAIN usersCache[ret.proc].data

\* C17: the protected user is in every loaded cache and in the users document,
\* delete_user on it fails, and delete_user on another existing user removes
\* the user from the cache and from the users document.
C17_ProtectedNotDeletable ==
    /\ \A p \in Procs : usersCache[p].loaded => "admin" \in DOMAIN usersCache[p].data
    /\ usersDoc.exists => "admin" \in DOMAIN usersDoc.users
    /\ (ret.op = "delete_user" /\ ret.id = "admin") => ~ret.success
    /\ (ret.op = "delete_user" /\ ret.success)
          => /\ ret.id \notin DOMAIN usersCache[ret.proc].data
             /\ usersDoc.exists
             /\ ret.id \notin DOMAIN usersDoc.users

\* C18: no write changes the role of the protected user, in the cache of a
\* process or in the users document.
C18_ProtectedRoleImmutable ==
    /\ \A p \in Procs :
          usersCache[p].loaded
             => usersCache[p].data["admin"].role = DEFAULT_USERS["admin"].role
    /\ usersDoc.exists => usersDoc.users["admin"].role = DEFAULT_USERS["admin"].role

\* C19: after update_user has set the role of a user to admin or super_admin,
\* the dashboards of the user are "all".
C19_RoleChangeForcesAll ==
    (ret.op = "update_user" /\ ret.success /\ ret.role \in {"admin", "super_admin"})
        => usersCache[ret.proc].data[ret.id].dashboards = AllDashboards

\* C20: for a session whose user has the role admin or super_admin,
\* can_access_dashboard is true for every enabled dashboard and
\* get_accessible_dashboards returns all dashboards.
C20_PrivilegedFullAccess ==
    [][\A s \in DOMAIN sessions :
          (/\ sessions[s].user.role \in {"admin", "super_admin"}
           /\ ret'.op \in {"can_access_dashboard", "get_accessible_dashboards"}
           /\ ret'.sid = s
           /\ ret'.found)
             => /\ (ret'.op = "can_access_dashboard"
                      /\ \E i \in DOMAIN DASHBOARDS :
                            DASHBOARDS[i].id = ret'.dashboard /\ DASHBOARDS[i].enabled)
                     => ret'.result
                /\ ret'.op = "get_accessible_dashboards" => ret'.result = DASHBOARDS]_vars


\* ------------------------------------------ Properties of the refresh stamps
\* get_metadata_timestamp: no metadata blob reads as None
NoStamp == 0

\* one line of get_daedalus_cache_info()
StampText(stamp) == IF stamp = NoStamp THEN "--" ELSE <<"%d %b, %H:%M", stamp>>

get_daedalus_cache_info ==
    [last_bq_refresh |-> StampText(bqStamp), last_gcs_refresh |-> StampText(gcsStamp)]

\* C21: a stage call in which at least one table was staged sets the BQ
\* refresh timestamp to the time of the call, also when other tables failed
\* (the write of the timestamp itself is taken to succeed).
C21_StampOnPartialSuccess ==
    \A t \in Threads :
        (Returned(t, "stage") /\ call[t].done # {} /\ call[t].why # "stamp")
            => bqStamp = now

\* C22: a promote call that promoted no table leaves the GCS refresh
\* timestamp as it was, so a store that was never promoted keeps showing "--".
C22_NoPromotionKeepsStamp ==
    \A t \in Threads :
        (Returned(t, "promote") /\ call[t].done = {})
            => /\ gcsStamp = call[t].pre.gcsStamp
               /\ get_daedalus_cache_info.last_gcs_refresh = StampText(call[t].pre.gcsStamp)

\* a DataFrame, empty or not: never None, never an error
IsFrame(df) == Len(df) >= 1 /\ df[1] = "df"

\* what the preload of a process leaves in the slot of key k: the table of the
\* active blob, or the empty frame (always the empty frame without a blob)
PreloadedSlot(p, k) ==
    /\ IF active[k] = NoBlob
       THEN cache'[p][k] = EmptyDF
       ELSE cache'[p][k] \in {EmptyDF, ToPandas(Deserialize(active[k]))}
    /\ GetDf(cache'[p], k) = cache'[p][k]

\* C23: preload_daedalus_tables() completes for every combination of missing
\* and unreadable active blobs and leaves in every configured key the loaded
\* table or the empty frame; _get_df of a key that was never loaded returns
\* the empty frame.
C23_PreloadNeverFails ==
    /\ [](\A p \in Procs, k \in Keys :
            /\ IsFrame(GetDf(cache[p], k))
            /\ p \notin started => (GetDf(cache[p], k) = EmptyDF /\ ENABLED Preload(p)))
    /\ [][\A p \in started' \ started :
            /\ DOMAIN cache'[p] = Keys
            /\ \A k \in Keys : PreloadedSlot(p, k)]_vars

\* no refresh has run yet: a process has preloaded a populated bucket, one blob
\* was unreadable and its slot holds the empty frame, another was loaded
C23_Witness ==
    /\ ncalls = 0
    /\ \E p \in started, k2, k3 \in Keys :
         /\ active[k2] # NoBlob /\ cache[p][k2] = EmptyDF
         /\ active[k3] # NoBlob /\ cache[p][k3] = ToPandas(Deserialize(active[k3]))
         /\ GetDf(cache[p], k2) = EmptyDF

\* thread t takes a step of a call it is running
Acts(t) == call[t] # Idle /\ call'[t] # call[t]

\* C24: a stage call writes only the staging blobs of the tables it does not
\* skip and the BQ timestamp: never an active blob, a cache slot or the GCS
\* timestamp. A promote call never changes a staging blob or the BQ timestamp.
\* The staging blob, the active blob and the cache slot of a skipped table are
\* left alone by both.
C24_WriteSets ==
    [][\A t \in Threads :
         /\ (call[t] = Idle /\ call'[t] # Idle)
              => UNCHANGED <<staging, active, cache, bqStamp, gcsStamp>>
         /\ (Acts(t) /\ call[t].op = "stage")
              => /\ UNCHANGED <<active, cache, gcsStamp>>
                 /\ \A k \in call[t].skip : staging'[k] = staging[k]
         /\ (Acts(t) /\ call[t].op = "promote")
              => /\ UNCHANGED <<staging, bqStamp>>
                 /\ \A k \in call[t].skip :
                      /\ active'[k] = active[k]
                      /\ cache'[call[t].proc][k] = cache[call[t].proc][k]]_vars

\* a stage call and then a promote call that skips one table have both gone
\* through: the other tables are promoted, the skipped one keeps the active
\* blob it had although its staging blob is newer
C24_Witness ==
    \E t \in Threads, k \in Keys :
        /\ Returned(t, "promote") /\ call[t].st = "ok"
        /\ call[t].skip = {k} /\ call[t].done = Keys \ {k}
        /\ staging[k] = Parquet(1) /\ bqStamp = now
        /\ active[k] = Parquet(0)
        /\ GetDf(cache[call[t].proc], k) = ToPandas(Deserialize(Parquet(0)))
        /\ \A j \in Keys \ {k} : active[j] = Parquet(1)

\* ------------------------------------------- Properties of the user records
\* C25: update_user on an existing user changes, in the users the call looked
\* up, only the fields that were passed, and the dashboards where the role was
\* set to admin; every field that was not passed keeps its value, every other
\* record is as it was, no record is added or removed, and the document that
\* is saved is that dict.
C25_PartialUpdate ==
    [][(ret'.op = "update_user" /\ ret'.success)
          => \E e \in Edits, loadUp \in BOOLEAN, saveUp \in BOOLEAN :
               LET id == ret'.id
                   old == Lookup(ret'.proc, loadUp, saveUp).users
                   new == usersCache'[ret'.proc].data
               IN /\ e.role = ret'.role
                  /\ id \in DOMAIN old
                  /\ DOMAIN new = DOMAIN old
                  /\ \A k \in DOMAIN old \ {id} : new[k] = old[k]
                  /\ new[id].password =
                       IF e.password # NoArg THEN e.password ELSE old[id].password
                  /\ new[id].role = IF e.role # NoArg THEN e.role ELSE old[id].role
                  /\ new[id].name = IF e.name # NoArg THEN e.name ELSE old[id].name
                  /\ new[id].dashboards \in
                       {old[id].dashboards}
                         \cup (IF e.role = "admin" THEN {AllDashboards} ELSE {})
                         \cup (IF e.hasDash THEN {<<"icarus">>} ELSE {})
                  /\ ret'.saved => (usersDoc'.exists /\ usersDoc'.users = new)]_vars

\* the password and the name of a restricted user were set in a store that
\* holds an added user: the role and the dashboards of the user are as before
C25_Witness ==
    /\ ret.op = "update_user" /\ ret.success /\ ret.saved
    /\ ret.id = "viewer" /\ ret.role = NoArg
    /\ "x" \in DOMAIN usersCache[ret.proc].data
    /\ usersCache[ret.proc].data["viewer"] =
         [password |-> "pw_new", role |-> "readonly", name |-> "Renamed",
          dashboards |-> <<"daedalus">>]
    /\ usersDoc.users = usersCache[ret.proc].data

\* ======================================================================
\* Role hierarchy of the admin panel (app/app.py)
\* ======================================================================
\* the place of a role in super_admin > admin > readonly
Rank(role) == CASE role = "super_admin" -> 3 [] role = "admin" -> 2 [] OTHER -> 1

\* can_manage_user(actor_role, target_role)
can_manage_user(actor_role, target_role) == Rank(actor_role) > Rank(target_role)

\* the user id delete_user turns down
ProtectedIds == {"admin"}

\* can_delete_user(actor_role, target_user_id, target_role)
can_delete_user(actor_role, user_id, target_role) ==
    user_id \notin ProtectedIds /\ can_manage_user(actor_role, target_role)

\* a slip: every user may edit a user of its own role
CanEditOwnRole(current_role, role) ==
    can_manage_user(current_role, role) \/ role = current_role

\* can_edit of a row of populate_admin_users_table
CanEdit(current_role, role) ==
    can_manage_user(current_role, role)
        \/ (role = "super_admin" /\ current_role = "super_admin")

\* role_disabled of open_edit_user_modal: the role dropdown is locked
RoleDisabled(target_role) == target_role = "super_admin"

\* the users of the panel: three ids, each with any role
PanelIds == {"admin", "viewer", "x"}
PanelUser(id, role) ==
    [password |-> "pw", role |-> role, name |-> id,
     dashboards |-> IF role = "readonly" THEN <<"daedalus">> ELSE AllDashboards]

InitRoles ==
    /\ staging = [k \in Keys |-> NoBlob]
    /\ active = [k \in Keys |-> NoBlob]
    /\ everStaged = [k \in Keys |-> {NoBlob}]
    /\ cache = [p \in Procs |-> <<>>]
    /\ started = {}
    /\ bqStamp = 0
    /\ gcsStamp = 0
    /\ now = 1
    /\ call = [t \in Threads |-> Idle]
    /\ ncalls = 0
    /\ sessions = <<>>
    /\ nsessions = 0
    /\ \E roles \in [PanelIds -> Roles] :
         usersDoc = [exists |-> TRUE,
                     users |-> [id \in PanelIds |-> PanelUser(id, roles[id])]]
    /\ usersCache = [p \in Procs |-> NoEntry]
    /\ defaults = [p \in Procs |-> DEFAULT_USERS]
    /\ writes = <<>>
    /\ ret = [op |-> "none"]

\* one row of populate_admin_users_table, for the signed-in user actor (whose
\* session carries its stored role) and the user of the row
PopulateRow(actor, user_id) ==
    /\ ret' = [op |-> "populate_admin_users_table", actor |-> actor, user_id |-> user_id,
               can_edit |-> CanEdit(usersDoc.users[actor].role, usersDoc.users[user_id].role)]
    /\ UNCHANGED <<pipeVars, now, sessions, nsessions, usersDoc, usersCache, defaults, writes>>

\* open_edit_user_modal on the Edit button of user_id
OpenEdit(actor, user_id) ==
    /\ CanEdit(usersDoc.users[actor].role, usersDoc.users[user_id].role)
    /\ ret' = [op |-> "open_edit_user_modal", actor |-> actor, user_id |-> user_id,
               role_disabled |-> RoleDisabled(usersDoc.users[user_id].role),
               can_del |-> can_delete_user(usersDoc.users[actor].role, user_id,
                                           usersDoc.users[user_id].role)]
    /\ UNCHANGED <<pipeVars, now, sessions, nsessions, usersDoc, usersCache, defaults, writes>>

NextRoles ==
    \/ \E actor \in PanelIds, user_id \in PanelIds : PopulateRow(actor, user_id)
    \/ \E actor \in PanelIds, user_id \in PanelIds : OpenEdit(actor, user_id)

SpecRoles == InitRoles /\ [][NextRoles]_vars

\* the pairs (actor role, target role) in which the actor is strictly above
StrictlyAbove ==
    {<<"super_admin", "admin">>, <<"super_admin", "readonly">>, <<"admin", "readonly">>}

LostIds == {"x", "y"}

\* both processes serve administrators who add users
NextLost ==
    \/ Tick
    \/ \E p \in Procs : GetAll(p)
    \/ \E p \in Procs, id \in LostIds : AddUser(p, id, "pw_x", "readonly", "X", <<"icarus">>)

SpecLost == InitAuth /\ [][NextLost]_vars

\* C27: a user that add_user of one process has put into the users document
\* is still there, next to the new user, after add_user of the other process
\* has succeeded and written the document (the case checked: the other process
\* holds a cache that is still fresh, so every storage operation of the call
\* succeeds).
C27_NoLostAdd ==
    [][(/\ ret'.op = "add_user" /\ ret'.success /\ ret'.saved
        /\ CacheFresh(usersCache[ret'.proc], now))
          => \A i \in DOMAIN writes :
               (/\ writes[i].op = "add_user"
                /\ writes[i].proc # ret'.proc
                /\ usersDoc.exists
                /\ writes[i].id \in DOMAIN usersDoc.users)
                  => {writes[i].id, ret'.id} \subseteq DOMAIN usersDoc'.users]_vars

\* ======================================================================
\* Promotions that overlap in one process
\* ======================================================================
\* a populated bucket, a process that has preloaded it, and a promote call of
\* that process in flight on the first thread, before its first table
InitRace ==
    /\ staging = [k \in Keys |-> Parquet(0)]
    /\ active = [k \in Keys |-> Parquet(0)]
    /\ everStaged = [k \in Keys |-> {Parquet(0)}]
    /\ cache = [p \in Procs |->
                  IF p = "w1" THEN [k \in Keys |-> PreloadSlot(active, k, FALSE)] ELSE <<>>]
    /\ started = {"w1"}
    /\ bqStamp = 0
    /\ gcsStamp = 0
    /\ now = 1
    /\ ncalls = 0
    /\ call = [t \in Threads |->
                 IF t = "t1" THEN NewCall("promote", "w1", {}, TRUE, TRUE) ELSE Idle]
    /\ sessions = <<>>
    /\ nsessions = 0
    /\ usersDoc = NoDoc
    /\ usersCache = [p \in Procs |-> NoEntry]
    /\ defaults = [p \in Procs |-> DEFAULT_USERS]
    /\ writes = <<>>
    /\ ret = [op |-> "none"]

\* the refresh calls of the started process, overlapping
NextRace ==
    \E t \in Threads :
        \/ StartStage(t, TRUE)
        \/ StageTable(t)
        \/ StageFinish(t)
        \/ StartPromote(t, TRUE)
        \/ PromoteLoad(t)
        \/ PromoteSave(t)
        \/ PromoteAssign(t)
        \/ PromoteFinish(t)
        \/ Return(t)

SpecRace == InitRace /\ [][NextRace]_vars

\* C28: when no promote call is in flight and the promote calls of both
\* threads have gone through, the cache slot of every table they promoted
\* holds the content of the active blob of the table.
C28_CacheAgreesWithActive ==
    (\A t \in Threads : Returned(t, "promote") /\ call[t].st = "ok")
        => \A t \in Threads : \A k \in call[t].done :
             GetDf(cache[call[t].proc], k) = ToPandas(Deserialize(active[k]))

\* ======================================================================
\* Sessions of an account that is deleted or gets a new password
\* ======================================================================
NextOutlive ==
    \/ Tick
    \/ Authenticate("w1", "viewer", "pw_viewer", TRUE)
    \/ DeleteUser("w1", "viewer")
    \/ UpdateUser("w1", "viewer", "pw_new", NoArg, NoArg, FALSE, <<>>)
    \/ \E sid \in 1..MaxSessions : IsAuthenticated(sid)
    \/ \E sid \in 1..MaxSessions : GetCurrentUser(sid)
    \/ \E sid \in 1..MaxSessions : Logout(sid)

SpecOutlive == InitAuth /\ [][NextOutlive]_vars

\* the account of the stored session s is no longer what it was at login: the
\* user is gone from the users document, or has another password
AccountChanged(s) ==
    /\ usersDoc.exists
    /\ LET u == sessions[s].user.username
       IN \/ u \notin DOMAIN usersDoc.users
          \/ usersDoc.users[u].password # "pw_viewer"

NextLogin ==
    \/ Tick
    \/ \E p \in Procs, u \in {"viewer", "ghost"}, pw \in {"pw_viewer", "wrong"} :
         Authenticate(p, u, pw, FALSE)

SpecLogin == InitAuth /\ [][NextLogin]_vars

\* ------------------------------------------------ Properties of failed logins
\* C30 (as claimed): a failed authenticate leaves the users document and every
\* session as they were.
C30_NoEffectAsClaimed ==
    [][(ret'.op = "authenticate" /\ ~ret'.success)
          => /\ sessions' = sessions
             /\ usersDoc' = usersDoc]_vars

\* C30 (amended): a failed authenticate returns (False, None, None), stores no
\* session and leaves every session as it was; of the user store only the
\* lookup has acted: nothing with a fresh cache, otherwise the cache of the
\* process is reloaded from the users document, or, when that cannot be read,
\* filled with the defaults, which are then written to the bucket.
C30_FailedLoginOnlyLooksUp ==
    [][(ret'.op = "authenticate" /\ ~ret'.success)
          => /\ ret'.sid = EmptySid /\ ret'.expires_at = 0
             /\ sessions' = sessions /\ nsessions' = nsessions
             /\ defaults' = defaults
             /\ \E p \in Procs, loadUp \in BOOLEAN, saveUp \in BOOLEAN :
                  /\ usersCache' = [usersCache EXCEPT ![p] = Lookup(p, loadUp, saveUp).entry]
                  /\ usersDoc' = Lookup(p, loadUp, saveUp).doc
                  /\ CacheFresh(usersCache[p], now)
                       => usersCache' = usersCache /\ usersDoc' = usersDoc
                  /\ usersDoc' # usersDoc => usersDoc'.users = defaults[p]]_vars

\* a login with a wrong password has failed while a session is stored
C30_Witness ==
    /\ ret.op = "authenticate" /\ ~ret.success
    /\ usersDoc.exists
    /\ DOMAIN sessions # {}
    /\ nsessions = Cardinality(DOMAIN sessions)
====
